---- MODULE Spec2Model ----
(***************************************************************************)
(* The memory store of avs-brain (SQLite tables memories, embeddings,      *)
(* links, sync_log) and the commands that read and write it:               *)
(*   brain.py              remember, search, link, forget                  *)
(*   brain_context.py      search_local                                    *)
(*   brain_entities.py     link-all                                        *)
(*   brain_maintenance.py  consolidate, decay, duplicates, optimize        *)
(* Every command is one action: it opens the database, runs to its commit  *)
(* (or to the uncaught exception that rolls its transaction back) and      *)
(* leaves what it printed in `out`.                                        *)
(*                                                                         *)
(* Conventions.  Memory ids are drawn fresh (secrets.token_hex); the model *)
(* names them 1, 2, ... in order of creation and NULL is 0 (where the code  *)
(* compares ids, the order of creation is one order the random ids can    *)
(* have).  A text is a                                                     *)
(* sequence of word tokens, substring search is contiguous-subsequence     *)
(* search.  A timestamp is the tuple <<day, separator, tick>> of the text  *)
(* SQLite or Python produces, compared as text (lexicographically).       *)
(* Similarities are fixed-point numbers in units of 1/Scale, rounded down; *)
(* the vectors of the model have integral norms, so a comparison with a    *)
(* threshold that is a multiple of 1/Scale is exact.                       *)
(* The store is the one left by init_db followed by ensure_schema (the     *)
(* columns consolidated_into and accessed_at exist).  No connection sets   *)
(* PRAGMA foreign_keys, so the REFERENCES ... ON DELETE CASCADE clauses of *)
(* the schema are not enforced; the UNIQUE and PRIMARY KEY constraints are.*)
(***************************************************************************)
EXTENDS Integers, Sequences, FiniteSets, TLC

\* ------------------------------------------------------------------ bounds
MaxMem == 3          \* memories remembered in one behaviour
MaxLinkRows == 2     \* rows of the links table
MaxLog == 2          \* rows of sync_log
MaxDay == 1          \* days the clock advances
TicksPerDay == 2     \* clock ticks within one day
MaxImportance == 130 \* importance values the decay action is explored up to
MaxSyncMem == 2      \* memories remembered in a behaviour of SpecSync

\* ------------------------------------------------------- program constants
NULL == 0
None == <<>>
Scale == 1000
SqliteSep == 32      \* ' ' in "YYYY-MM-DD HH:MM:SS"   (datetime('now'))
IsoSep == 84         \* 'T' in "YYYY-MM-DDTHH:MM:SS"   (datetime.isoformat())
DecayFloor == 10
SyncImportance == 70

VALID_TYPES ==
    {"product", "company", "person", "concept", "decision", "resource",
     "memory", "conversation"}

VALID_RELATIONS ==
    {"related_to", "depends_on", "implements", "part_of", "supersedes",
     "used_by", "created_by"}

\* brain_entities.py AVS_PRODUCTS / AVS_COMPANIES, lower-cased as
\* extract_entities compares them (the entries the model's texts can name)
AVS_PRODUCTS == {<<"paxton">>, <<"net2">>}
AVS_COMPANIES == {<<"avs">>}

\* ------------------------------------------------------------------- text
\* Python str.lower() of a word.  "E'lan" and "e'lan" stand for the word
\* written with U+00C9 and with U+00E9 as its first letter.
Lower(w) ==
    CASE w = "Paxton" -> "paxton"
      [] w = "Net2" -> "net2"
      [] w = "Note" -> "note"
      [] w = "E'lan" -> "e'lan"
      [] OTHER -> w

\* the case folding of SQLite's LIKE, which folds the 26 ASCII letters only
AsciiLower(w) ==
    CASE w = "Paxton" -> "paxton"
      [] w = "Net2" -> "net2"
      [] w = "Note" -> "note"
      [] OTHER -> w

AsciiLowerText(t) == [i \in 1..Len(t) |-> AsciiLower(t[i])]

LowerText(t) == [i \in 1..Len(t) |-> Lower(t[i])]

\* Python `needle in hay`
Contains(hay, needle) ==
    \E i \in 1..(Len(hay) - Len(needle) + 1) :
        SubSeq(hay, i, i + Len(needle) - 1) = needle

\* SQLite `hay LIKE '%needle%'` (case-insensitive on ASCII)
Like(hay, needle) == Contains(AsciiLowerText(hay), AsciiLowerText(needle))

\* json.dumps of the tag list
TagsJson(tags) == <<"[">> \o tags \o <<"]">>

\* ------------------------------------------------------------- timestamps
TsLess(a, b) ==
    /\ a # None
    /\ b # None
    /\ \/ a[1] < b[1]
       \/ a[1] = b[1] /\ a[2] < b[2]
       \/ a[1] = b[1] /\ a[2] = b[2] /\ a[3] < b[3]

\* ---------------------------------------------------------------- vectors
RECURSIVE SumTo(_, _)
SumTo(f, n) == IF n = 0 THEN 0 ELSE f[n] + SumTo(f, n - 1)

MinLen(u, v) == IF Len(u) < Len(v) THEN Len(u) ELSE Len(v)

Dot(u, v) == SumTo([i \in 1..MinLen(u, v) |-> u[i] * v[i]], MinLen(u, v))

RECURSIVE SqrtIter(_, _)
SqrtIter(n, x) ==
    IF x <= n \div x /\ x + 1 > n \div (x + 1) THEN x
    ELSE SqrtIter(n, (x + (n \div x)) \div 2)

Sqrt(n) == IF n = 0 THEN 0 ELSE SqrtIter(n, n)

\* struct.pack(f'{n}f', ...): 4 bytes per float, no header
embedding_to_blob(v) == [floats |-> v, len |-> 4 * Len(v)]

\* struct.unpack(f'{len // 4}f', blob): an error unless len = 4 * (len // 4)
BlobOk(blob) == blob.len = 4 * (blob.len \div 4)
blob_to_embedding(blob) == SubSeq(blob.floats, 1, blob.len \div 4)

\* cosine similarity in units of 1/Scale
cosine_similarity(u, v) ==
    IF u = None \/ v = None THEN 0
    ELSE LET n1 == Sqrt(Dot(u, u))
             n2 == Sqrt(Dot(v, v))
         IN  IF n1 = 0 \/ n2 = 0 THEN 0
             ELSE (Dot(u, v) * Scale) \div (n1 * n2)

\* ------------------------------------------------------------ input sets
\* cos(VecA, VecB) = cos(VecB, VecC) = 0.96, cos(VecA, VecC) = 0.8432
VecA == <<25, 0>>
VecB == <<24, 7>>
VecC == <<527, 336>>
Vectors == {VecA, VecB, VecC}
Thresholds == {850, 950}

VARIABLES memories, embeddings, links, sync_log, nextId, now, out, full

vars == <<memories, embeddings, links, sync_log, nextId, now, out, full>>

\* the position of a `full` invocation (brain_maintenance.py cmd_full): pc is
\* the command it runs next ("idle" before an invocation, "done" after the
\* last command, "failed" when a command raised and the exception ended
\* the invocation), steps the commands it has called so far
Idle == [pc |-> "idle", dry_run |-> FALSE, steps |-> <<>>]

Ids == DOMAIN memories

SqliteNow == <<now[1], SqliteSep, now[2]>>

\* ------------------------------------------------------------------- Init
Init ==
    /\ memories = <<>>
    /\ embeddings = <<>>
    /\ links = {}
    /\ sync_log = <<>>
    /\ nextId = 1
    /\ now = <<0, 0>>
    /\ out = [cmd |-> "init"]
    /\ full = Idle

\* the clock of the host
Tick ==
    /\ IF now[2] + 1 < TicksPerDay
       THEN now' = <<now[1], now[2] + 1>>
       ELSE /\ now[1] < MaxDay
            /\ now' = <<now[1] + 1, 0>>
    /\ UNCHANGED <<memories, embeddings, links, sync_log, nextId, out, full>>

\* --------------------------------------------------------- sync_to_avs
\* (mutant) sync_to_avs stamping synced_at on the failure path as well
sync_to_avsStamping(mems, log, id, netOk, resp) ==
    IF id \notin DOMAIN mems THEN [memories |-> mems, sync_log |-> log, ok |-> FALSE]
    ELSE LET node == IF netOk /\ resp # NULL THEN resp ELSE mems[id].avs_node_id
         IN  [memories |-> [mems EXCEPT ![id].avs_node_id = node,
                                         ![id].synced_at = SqliteNow],
              sync_log |-> Append(log, [memory_id |-> id, action |-> "push",
                                        status |-> IF netOk THEN "success"
                                                   ELSE "failed",
                                        avs_node_id |-> IF netOk THEN node
                                                        ELSE NULL]),
              ok |-> netOk]

\* brain.py sync_to_avs: push one memory to the remote knowledge base.
\* netOk: the HTTP request succeeded; resp: the id in the response (NULL
\* when the response carries none).  Returns the new memories and sync_log.
sync_to_avs(mems, log, id, netOk, resp) ==
    IF id \notin DOMAIN mems THEN [memories |-> mems, sync_log |-> log, ok |-> FALSE]
    ELSE IF netOk
    THEN LET node == IF resp # NULL THEN resp ELSE mems[id].avs_node_id
         IN  [memories |-> [mems EXCEPT ![id].avs_node_id = node,
                                         ![id].synced_at = SqliteNow],
              sync_log |-> Append(log, [memory_id |-> id, action |-> "push",
                                        status |-> "success", avs_node_id |-> node]),
              ok |-> TRUE]
    ELSE [memories |-> mems,
          sync_log |-> Append(log, [memory_id |-> id, action |-> "push",
                                    status |-> "failed", avs_node_id |-> NULL]),
          ok |-> FALSE]

\* ------------------------------------------------------------- remember
NewMemory(a) ==
    [type |-> a.type, title |-> a.title, content |-> a.content,
     importance |-> a.importance, tags |-> a.tags, avs_node_id |-> NULL,
     created_at |-> SqliteNow, updated_at |-> SqliteNow, synced_at |-> None,
     accessed_at |-> None, consolidated_into |-> NULL]

\* brain.py cmd_remember.  vec: what compute_embedding returns (None when
\* sentence-transformers is not installed); key: AVS_API_KEY is set.
cmd_remember(a, vec, key, netOk, resp) ==
    /\ nextId <= MaxMem
    /\ IF a.type \notin VALID_TYPES
       THEN /\ out' = [cmd |-> "remember", success |-> FALSE]
            /\ UNCHANGED <<memories, embeddings, links, sync_log, nextId, now>>
       ELSE LET id == nextId
                m1 == [i \in Ids \cup {id} |->
                          IF i = id THEN NewMemory(a) ELSE memories[i]]
                e1 == IF vec = None THEN embeddings
                      ELSE [i \in DOMAIN embeddings \cup {id} |->
                               IF i = id THEN embedding_to_blob(vec)
                               ELSE embeddings[i]]
                s  == IF a.importance >= SyncImportance /\ key
                      THEN sync_to_avs(m1, sync_log, id, netOk, resp)
                      ELSE [memories |-> m1, sync_log |-> sync_log, ok |-> FALSE]
            IN  /\ Len(s.sync_log) <= MaxLog
                /\ memories' = s.memories
                /\ embeddings' = e1
                /\ sync_log' = s.sync_log
                /\ nextId' = nextId + 1
                /\ out' = [cmd |-> "remember", success |-> TRUE, id |-> id]
                /\ UNCHANGED <<links, now>>

\* --------------------------------------------------------------- forget
\* brain.py cmd_forget: DELETE FROM memories WHERE id = ?, then a sync_log
\* row.  Foreign keys are not enforced on the connection (init_db issues no
\* PRAGMA foreign_keys), so the embedding and the links of the id stay.
cmd_forget(id) ==
    IF id \notin Ids
    THEN /\ out' = [cmd |-> "forget", success |-> FALSE]
         /\ UNCHANGED <<memories, embeddings, links, sync_log, nextId, now>>
    ELSE /\ Len(sync_log) < MaxLog
         /\ memories' = [i \in Ids \ {id} |-> memories[i]]
         /\ sync_log' = Append(sync_log, [memory_id |-> id, action |-> "delete",
                                          status |-> "success", avs_node_id |-> NULL])
         /\ out' = [cmd |-> "forget", success |-> TRUE, id |-> id]
         /\ UNCHANGED <<embeddings, links, nextId, now>>

\* ----------------------------------------------------------------- links
SameTriple(l, r) ==
    /\ l.from_id = r.from_id
    /\ l.to_id = r.to_id
    /\ l.relation_type = r.relation_type

Triple(l) == <<l.from_id, l.to_id, l.relation_type>>

\* (mutant) an id generator that can return the id of a row
RepeatedLinkId(ls) == IF ls = {} THEN 1 ELSE (CHOOSE l \in ls : TRUE).id

\* generate_id('link'): an id no row carries
FreshLinkId(ls) ==
    CHOOSE i \in 1..(Cardinality(ls) + 1) :
        /\ \A l \in ls : l.id # i
        /\ \A j \in 1..(i - 1) : \E l \in ls : l.id = j

LinkRow(lid, f, t, rel) ==
    [id |-> lid, from_id |-> f, to_id |-> t, relation_type |-> rel]

\* (mutant) an INSERT that keeps the rows in conflict on the triple
InsertKeeping(ls, row) == {l \in ls : l.id # row.id} \cup {row}

\* INSERT OR REPLACE INTO links: rows in conflict on the PRIMARY KEY or on
\* UNIQUE(from_id, to_id, relation_type) are deleted, then the row is added
InsertOrReplace(ls, row) ==
    {l \in ls : ~(l.id = row.id \/ SameTriple(l, row))} \cup {row}

\* brain.py cmd_link
cmd_link(f, t, rel, bidirectional) ==
    IF rel \notin VALID_RELATIONS \/ f \notin Ids \/ t \notin Ids
    THEN /\ out' = [cmd |-> "link", success |-> FALSE]
         /\ UNCHANGED <<memories, embeddings, links, sync_log, nextId, now>>
    ELSE LET l1 == InsertOrReplace(links, LinkRow(FreshLinkId(links), f, t, rel))
             l2 == IF bidirectional
                   THEN InsertOrReplace(l1, LinkRow(FreshLinkId(l1), t, f, rel))
                   ELSE l1
         IN  /\ Cardinality(l2) <= MaxLinkRows
             /\ links' = l2
             /\ out' = [cmd |-> "link", success |-> TRUE, from_id |-> f,
                        to_id |-> t, relation_type |-> rel,
                        bidirectional |-> bidirectional]
             /\ UNCHANGED <<memories, embeddings, sync_log, nextId, now>>

\* --------------------------------------------------------------- search
Perms(S) ==
    {f \in [1..Cardinality(S) -> S] :
        \A i, j \in 1..Cardinality(S) : i # j => f[i] # f[j]}

\* the e.vector column of the LEFT JOIN: None when the memory has no row
VectorOf(id) == IF id \in DOMAIN embeddings THEN embeddings[id] ELSE None

\* text_match in units of 1/Scale
text_match(query, m) ==
    IF \/ Contains(LowerText(m.title), LowerText(query))
       \/ Contains(LowerText(m.content), LowerText(query))
    THEN Scale ELSE 0

semantic_score(qvec, blob) ==
    IF qvec # None /\ blob # None /\ blob.len > 0
    THEN cosine_similarity(qvec, blob_to_embedding(blob))
    ELSE 0

\* 0.4 * text_match + 0.6 * semantic_score, in units of 1/(10 * Scale)
combined_score(query, qvec, id) ==
    4 * text_match(query, memories[id]) + 6 * semantic_score(qvec, VectorOf(id))

\* round(x, 3) of a score given in units of 1/(10 * Scale)
Round3(x) == (x + 5) \div 10

ScoredRow(query, qvec, id) ==
    [id |-> id,
     type |-> memories[id].type,
     importance |-> memories[id].importance,
     score |-> Round3(combined_score(query, qvec, id)),
     text_match |-> text_match(query, memories[id]),
     semantic_score |-> semantic_score(qvec, VectorOf(id))]

\* x sorts before-or-with y under sort(key=(score, importance), reverse=True)
KeyGE(x, y) ==
    \/ x.score > y.score
    \/ x.score = y.score /\ x.importance >= y.importance

\* the orders list.sort can leave the rows in: descending by key, rows of
\* equal key in the order the query returned them (any order)
SortedResults(rows) ==
    {s \in Perms(rows) : \A i, j \in 1..Len(s) : i < j => KeyGE(s[i], s[j])}

Truncate(s, limit) ==
    IF limit >= 0 THEN SubSeq(s, 1, IF limit < Len(s) THEN limit ELSE Len(s))
    ELSE SubSeq(s, 1, IF Len(s) + limit > 0 THEN Len(s) + limit ELSE 0)

\* the WHERE clause of cmd_search; AND binds tighter than OR in SQL, so the
\* type filter qualifies the last disjunct only
SearchRow(query, type, id) ==
    \/ Like(memories[id].title, query)
    \/ Like(memories[id].content, query)
    \/ Like(TagsJson(memories[id].tags), query)
    \/ /\ id \in DOMAIN embeddings
       /\ type # "" => memories[id].type = type

SearchHits(query, type, qvec) ==
    {ScoredRow(query, qvec, id) : id \in
        {i \in Ids :
            /\ SearchRow(query, type, i)
            /\ \/ combined_score(query, qvec, i) > Scale
               \/ text_match(query, memories[i]) > 0}}

\* every stored blob the scoring loop decodes has a well-formed length
DecodeOk(ids, qvec) ==
    \A i \in ids : (qvec # None /\ i \in DOMAIN embeddings /\ embeddings[i].len > 0)
                      => BlobOk(embeddings[i])

\* brain.py cmd_search (local results; --local-only)
cmd_search(query, type, limit, qvec) ==
    /\ IF DecodeOk({i \in Ids : SearchRow(query, type, i)}, qvec)
       THEN \E s \in SortedResults(SearchHits(query, type, qvec)) :
               out' = [cmd |-> "search", success |-> TRUE, query |-> query,
                       type |-> type, limit |-> limit,
                       results |-> Truncate(s, limit)]
       ELSE out' = [cmd |-> "search", success |-> FALSE]
    /\ UNCHANGED <<memories, embeddings, links, sync_log, nextId, now>>

MIN_SCORE_THRESHOLD == 2500

LocalRow(query, qvec, id) ==
    [id |-> id,
     type |-> memories[id].type,
     importance |-> memories[id].importance,
     score |-> Round3(combined_score(query, qvec, id))]

LocalHits(query, qvec) ==
    {LocalRow(query, qvec, id) : id \in
        {i \in Ids :
            \/ combined_score(query, qvec, i) >= MIN_SCORE_THRESHOLD
            \/ text_match(query, memories[i]) > 0}}

\* brain_context.py search_local
search_local(query, limit, qvec) ==
    /\ IF DecodeOk(Ids, qvec)
       THEN \E s \in SortedResults(LocalHits(query, qvec)) :
               out' = [cmd |-> "search_local", success |-> TRUE, query |-> query,
                       limit |-> limit, results |-> Truncate(s, limit)]
       ELSE out' = [cmd |-> "search_local", success |-> FALSE]
    /\ UNCHANGED <<memories, embeddings, links, sync_log, nextId, now>>

\* ---------------------------------------------------------- maintenance
\* brain_maintenance.py deserialize_embedding of the e.vector column
deserialize_embedding(blob) ==
    IF blob = None THEN None ELSE blob_to_embedding(blob)

\* (mutant) the candidate query without WHERE consolidated_into IS NULL
ActiveNoFilter == Ids

Active == {i \in Ids : memories[i].consolidated_into = NULL}

\* every blob a maintenance scan of the active memories unpacks is well formed
ScanOk == \A i \in Active : i \in DOMAIN embeddings => BlobOk(embeddings[i])

\* (mutant) the absorption without the comparison of the types
AbsorbedAnyType(order, i, used, threshold) ==
    LET vec1 == deserialize_embedding(VectorOf(order[i]))
        Test(id) ==
            /\ id \notin used
            /\ deserialize_embedding(VectorOf(id)) # None
            /\ cosine_similarity(vec1, deserialize_embedding(VectorOf(id))) >= threshold
    IN  SelectSeq(SubSeq(order, i + 1, Len(order)), Test)

\* the memories a seed absorbs: later rows, not yet used, of the seed's
\* type, with an embedding whose similarity to the seed's reaches threshold
Absorbed(order, i, used, threshold) ==
    LET vec1 == deserialize_embedding(VectorOf(order[i]))
        Test(id) ==
            /\ id \notin used
            /\ memories[id].type = memories[order[i]].type
            /\ deserialize_embedding(VectorOf(id)) # None
            /\ cosine_similarity(vec1, deserialize_embedding(VectorOf(id))) >= threshold
    IN  SelectSeq(SubSeq(order, i + 1, Len(order)), Test)

Range(s) == {s[k] : k \in 1..Len(s)}

\* the clustering loop of cmd_consolidate, from row i on
RECURSIVE FindClusters(_, _, _, _, _)
FindClusters(order, i, used, clusters, threshold) ==
    IF i > Len(order) THEN clusters
    ELSE IF order[i] \in used \/ deserialize_embedding(VectorOf(order[i])) = None
    THEN FindClusters(order, i + 1, used, clusters, threshold)
    ELSE LET cluster == <<order[i]>> \o Absorbed(order, i, used, threshold)
         IN  FindClusters(order, i + 1, used \cup Range(cluster),
                          IF Len(cluster) > 1 THEN Append(clusters, cluster)
                          ELSE clusters,
                          threshold)

\* comparison of two sort keys <<importance, id>>
PairGE(a, b) == a[1] > b[1] \/ (a[1] = b[1] /\ a[2] >= b[2])

\* list.sort(key=..., reverse=True): descending, equal keys keep their order
RECURSIVE InsertDesc(_, _, _)
InsertDesc(sorted, x, key) ==
    IF sorted = <<>> THEN <<x>>
    ELSE IF PairGE(key[sorted[1]], key[x])
    THEN <<sorted[1]>> \o InsertDesc(Tail(sorted), x, key)
    ELSE <<x>> \o sorted

RECURSIVE SortDesc(_, _)
SortDesc(s, key) ==
    IF s = <<>> THEN <<>>
    ELSE InsertDesc(SortDesc(SubSeq(s, 1, Len(s) - 1), key), s[Len(s)], key)

\* combined_content of cmd_consolidate
RECURSIVE CombineContent(_, _, _)
CombineContent(mems, combined, others) ==
    IF others = <<>> THEN combined
    ELSE CombineContent(mems,
             IF Contains(combined, mems[others[1]].content) THEN combined
             ELSE combined \o <<"---">> \o mems[others[1]].content,
             Tail(others))

\* json.dumps(list(all_tags)): the union of the tag lists, in the order the
\* set iterates (tagOrder, any order of the tag words)
CombineTags(mems, cluster, tagOrder) ==
    LET all == UNION {Range(mems[cluster[k]].tags) : k \in 1..Len(cluster)}
        In(t) == t \in all
    IN  SelectSeq(tagOrder, In)

\* (mutant) the update loop without the UPDATE that marks the other members
RECURSIVE ApplyClustersNoMark(_, _, _, _)
ApplyClustersNoMark(snap, mems, clusters, tagOrder) ==
    IF clusters = <<>> THEN mems
    ELSE LET key == [i \in DOMAIN snap |-> <<snap[i].importance, 0>>]
             cluster == SortDesc(clusters[1], key)
             base == cluster[1]
             m1 == [mems EXCEPT
                      ![base].content =
                          CombineContent(snap, snap[base].content, Tail(cluster)),
                      ![base].tags = CombineTags(snap, cluster, tagOrder),
                      ![base].updated_at = SqliteNow]
         IN  ApplyClustersNoMark(snap, m1, Tail(clusters), tagOrder)

\* the update loop of cmd_consolidate over the clusters; snap is the rows as
\* fetched, mems the table being written
RECURSIVE ApplyClusters(_, _, _, _)
ApplyClusters(snap, mems, clusters, tagOrder) ==
    IF clusters = <<>> THEN mems
    ELSE LET key == [i \in DOMAIN snap |-> <<snap[i].importance, 0>>]
             cluster == SortDesc(clusters[1], key)
             base == cluster[1]
             others == Tail(cluster)
             m1 == [i \in DOMAIN mems |->
                      IF i = base
                      THEN [mems[i] EXCEPT
                               !.content = CombineContent(snap, snap[base].content, others),
                               !.tags = CombineTags(snap, cluster, tagOrder),
                               !.updated_at = SqliteNow]
                      ELSE IF i \in Range(others)
                      THEN [mems[i] EXCEPT !.consolidated_into = base,
                                           !.updated_at = SqliteNow]
                      ELSE mems[i]]
         IN  ApplyClusters(snap, m1, Tail(clusters), tagOrder)

RECURSIVE SumLen(_)
SumLen(groups) ==
    IF groups = <<>> THEN 0 ELSE (Len(groups[1]) - 1) + SumLen(Tail(groups))

\* the orders ORDER BY m.importance DESC can return the active rows in
ConsolidateOrders ==
    {o \in Perms(Active) :
        \A i, j \in 1..Len(o) :
            i < j => memories[o[i]].importance >= memories[o[j]].importance}

\* the command before this one was a committed consolidate run with the same
\* threshold (nothing was written in between)
JustConsolidated(threshold) ==
    /\ out.cmd = "consolidate"
    /\ out.success
    /\ ~out.dry_run
    /\ out.threshold = threshold

\* brain_maintenance.py cmd_consolidate
cmd_consolidate(threshold, dry_run, order, tagOrder) ==
    /\ order \in ConsolidateOrders
    /\ IF ~ScanOk
       THEN /\ out' = [cmd |-> "consolidate", success |-> FALSE]
            /\ UNCHANGED memories
       ELSE LET clusters == FindClusters(order, 1, {}, <<>>, threshold)
            IN  /\ memories' = IF dry_run THEN memories
                               ELSE ApplyClusters(memories, memories, clusters, tagOrder)
                /\ out' = [cmd |-> "consolidate", success |-> TRUE,
                           clusters_found |-> Len(clusters),
                           memories_consolidated |->
                               IF dry_run THEN 0 ELSE SumLen(clusters),
                           dry_run |-> dry_run,
                           threshold |-> threshold,
                           rerun |-> JustConsolidated(threshold)]
    /\ UNCHANGED <<embeddings, links, sync_log, nextId, now>>

\* ------------------------------------------------------------------ decay
\* (datetime.now() - timedelta(days)).isoformat()
CutoffDate(days) == <<now[1] - days, IsoSep, now[2]>>

\* the WHERE clause of cmd_decay
DecayEligible(m, cutoff) ==
    /\ m.importance > DecayFloor
    /\ (m.accessed_at = None \/ TsLess(m.accessed_at, cutoff))
    /\ TsLess(m.created_at, cutoff)
    /\ m.consolidated_into = NULL

Max(a, b) == IF a >= b THEN a ELSE b

\* (mutant) the new importance without the floor
new_importanceNoFloor(importance, rate) == importance - rate

new_importance(importance, rate) == Max(DecayFloor, importance - rate)

Decayed(days, rate) ==
    {i \in Ids :
        /\ DecayEligible(memories[i], CutoffDate(days))
        /\ new_importance(memories[i].importance, rate) # memories[i].importance}

\* (mutant) the decay whose UPDATE is not guarded by dry_run
cmd_decayUnguarded(days, rate, dry_run) ==
    /\ \A i \in Decayed(days, rate) :
          new_importance(memories[i].importance, rate) <= MaxImportance
    /\ memories' =
          [i \in Ids |->
              IF i \in Decayed(days, rate)
              THEN [memories[i] EXCEPT
                      !.importance = new_importance(memories[i].importance, rate),
                      !.updated_at = SqliteNow]
              ELSE memories[i]]
    /\ out' = [cmd |-> "decay", success |-> TRUE,
               memories_decayed |-> Cardinality(Decayed(days, rate)),
               decay_rate |-> rate, days_threshold |-> days, dry_run |-> dry_run]
    /\ UNCHANGED <<embeddings, links, sync_log, nextId, now>>

\* brain_maintenance.py cmd_decay
cmd_decay(days, rate, dry_run) ==
    /\ \A i \in Decayed(days, rate) :
          new_importance(memories[i].importance, rate) <= MaxImportance
    /\ memories' =
          IF dry_run THEN memories
          ELSE [i \in Ids |->
                  IF i \in Decayed(days, rate)
                  THEN [memories[i] EXCEPT
                          !.importance = new_importance(memories[i].importance, rate),
                          !.updated_at = SqliteNow]
                  ELSE memories[i]]
    /\ out' = [cmd |-> "decay", success |-> TRUE,
               memories_decayed |-> Cardinality(Decayed(days, rate)),
               decay_rate |-> rate, days_threshold |-> days, dry_run |-> dry_run]
    /\ UNCHANGED <<embeddings, links, sync_log, nextId, now>>

\* ------------------------------------------------------------- duplicates
\* the memories the row at i gathers into its group: later rows, not yet
\* checked, with the same lower-cased title or a similar enough embedding
DupeMembers(order, i, checked, threshold) ==
    LET vec1 == deserialize_embedding(VectorOf(order[i]))
        Test(id) ==
            /\ id \notin checked
            /\ \/ LowerText(memories[order[i]].title) = LowerText(memories[id].title)
               \/ /\ vec1 # None
                  /\ deserialize_embedding(VectorOf(id)) # None
                  /\ cosine_similarity(vec1, deserialize_embedding(VectorOf(id)))
                        >= threshold
    IN  SelectSeq(SubSeq(order, i + 1, Len(order)), Test)

\* the grouping loop of cmd_duplicates, from row i on
RECURSIVE FindDuplicates(_, _, _, _, _)
FindDuplicates(order, i, checked, duplicates, threshold) ==
    IF i > Len(order) THEN duplicates
    ELSE IF order[i] \in checked
    THEN FindDuplicates(order, i + 1, checked, duplicates, threshold)
    ELSE LET members == DupeMembers(order, i, checked, threshold)
         IN  IF members = <<>>
             THEN FindDuplicates(order, i + 1, checked, duplicates, threshold)
             ELSE FindDuplicates(order, i + 1,
                                 checked \cup Range(members) \cup {order[i]},
                                 Append(duplicates, <<order[i]>> \o members),
                                 threshold)

\* UPDATE links SET to_id = keep WHERE to_id = mem
RepointTo(ls, mem, keep) ==
    {IF l.to_id = mem THEN [l EXCEPT !.to_id = keep] ELSE l : l \in ls}

\* (mutant) the merge without the UPDATE of from_id
RepointFromSkipped(ls, mem, keep) == ls

\* UPDATE links SET from_id = keep WHERE from_id = mem
RepointFrom(ls, mem, keep) ==
    {IF l.from_id = mem THEN [l EXCEPT !.from_id = keep] ELSE l : l \in ls}

\* UNIQUE(from_id, to_id, relation_type) holds of the rows
UniqueOk(ls) == \A l1, l2 \in ls : SameTriple(l1, l2) => l1.id = l2.id

\* (mutant) the merge that also re-points the memories already consolidated
\* into a removed member
RECURSIVE MergeIntoRepoint(_, _, _)
MergeIntoRepoint(db, keep, remove) ==
    IF remove = <<>> \/ ~db.ok THEN db
    ELSE LET mem == remove[1]
             l1 == RepointTo(db.links, mem, keep)
             l2 == RepointFrom(l1, mem, keep)
         IN  IF ~UniqueOk(l1) \/ ~UniqueOk(l2)
             THEN [db EXCEPT !.ok = FALSE]
             ELSE MergeIntoRepoint(
                    [memories |-> [i \in DOMAIN db.memories |->
                                     IF i = mem \/ db.memories[i].consolidated_into = mem
                                     THEN [db.memories[i] EXCEPT
                                              !.consolidated_into = keep,
                                              !.updated_at = SqliteNow]
                                     ELSE db.memories[i]],
                     links |-> l2, ok |-> TRUE],
                    keep, Tail(remove))

\* the statements cmd_duplicates runs for the removed members of one group;
\* ok turns FALSE at the statement that raises sqlite3.IntegrityError
RECURSIVE MergeInto(_, _, _)
MergeInto(db, keep, remove) ==
    IF remove = <<>> \/ ~db.ok THEN db
    ELSE LET mem == remove[1]
             l1 == RepointTo(db.links, mem, keep)
             l2 == RepointFrom(l1, mem, keep)
         IN  IF ~UniqueOk(l1) \/ ~UniqueOk(l2)
             THEN [db EXCEPT !.ok = FALSE]
             ELSE MergeInto(
                    [memories |-> [db.memories EXCEPT
                                      ![mem].consolidated_into = keep,
                                      ![mem].updated_at = SqliteNow],
                     links |-> l2, ok |-> TRUE],
                    keep, Tail(remove))

\* the merge loop of cmd_duplicates over the groups
RECURSIVE ApplyDuplicates(_, _, _)
ApplyDuplicates(snap, db, duplicates) ==
    IF duplicates = <<>> \/ ~db.ok THEN db
    ELSE LET key == [i \in DOMAIN snap |-> <<snap[i].importance, i>>]
             group == SortDesc(duplicates[1], key)
         IN  ApplyDuplicates(snap, MergeInto(db, group[1], Tail(group)),
                             Tail(duplicates))

\* brain_maintenance.py cmd_duplicates.  order: the order the unordered
\* SELECT returns the active rows in.  An IntegrityError is not caught: the
\* process ends before conn.commit() and the transaction is rolled back.
\* Besides the printed result, out keeps `repointed`, the number of link rows
\* the UPDATE links statements of the run changed (their rowcount).
cmd_duplicates(threshold, dry_run, order) ==
    /\ order \in Perms(Active)
    /\ IF ~ScanOk
       THEN /\ out' = [cmd |-> "duplicates", success |-> FALSE]
            /\ UNCHANGED <<memories, links>>
       ELSE LET duplicates == FindDuplicates(order, 1, {}, <<>>, threshold)
                db == ApplyDuplicates(memories,
                         [memories |-> memories, links |-> links, ok |-> TRUE],
                         duplicates)
            IN  IF dry_run
                THEN /\ out' = [cmd |-> "duplicates", success |-> TRUE,
                                duplicate_groups |-> Len(duplicates),
                                memories_merged |-> 0, dry_run |-> TRUE]
                     /\ UNCHANGED <<memories, links>>
                ELSE IF db.ok
                THEN /\ memories' = db.memories
                     /\ links' = db.links
                     /\ out' = [cmd |-> "duplicates", success |-> TRUE,
                                duplicate_groups |-> Len(duplicates),
                                memories_merged |-> SumLen(duplicates),
                                dry_run |-> FALSE,
                                repointed |-> Cardinality(links \ db.links)]
                ELSE /\ out' = [cmd |-> "duplicates", success |-> FALSE]
                     /\ UNCHANGED <<memories, links>>
    /\ UNCHANGED <<embeddings, sync_log, nextId, now>>

\* ---------------------------------------------------- an aborted run
\* cmd_consolidate, cmd_decay and cmd_duplicates execute every UPDATE of a
\* run on one connection and call conn.commit() once, after the loop over
\* all the groups or records.  A run whose process ends before that call,
\* after k groups or records were processed, leaves an open transaction that
\* SQLite rolls back: nothing of the run is in the persisted store.
consolidate_aborted(threshold, order, tagOrder, k) ==
    /\ order \in ConsolidateOrders
    /\ ScanOk
    /\ k \in 0..Len(FindClusters(order, 1, {}, <<>>, threshold))
    /\ out' = [cmd |-> "consolidate", success |-> FALSE, processed |-> k]
    /\ UNCHANGED <<memories, embeddings, links, sync_log, nextId, now>>

decay_aborted(days, rate, k) ==
    /\ k \in 0..Cardinality(Decayed(days, rate))
    /\ out' = [cmd |-> "decay", success |-> FALSE, processed |-> k]
    /\ UNCHANGED <<memories, embeddings, links, sync_log, nextId, now>>

duplicates_aborted(threshold, order, k) ==
    /\ order \in Perms(Active)
    /\ ScanOk
    /\ k \in 0..Len(FindDuplicates(order, 1, {}, <<>>, threshold))
    /\ out' = [cmd |-> "duplicates", success |-> FALSE, processed |-> k]
    /\ UNCHANGED <<memories, embeddings, links, sync_log, nextId, now>>

\* ------------------------------------------------------------- link-all
\* brain_entities.py extract_entities + find_related_memories: the memories
\* of type product (company) whose title names a product (company) that the
\* text of m names.  (The two-capitalised-words person heuristic is not
\* modelled; LIMIT 5 never truncates within MaxMem.)
Related(m) ==
    LET text == LowerText(m.title \o m.content)
    IN  {r \in Ids :
            \/ \E p \in AVS_PRODUCTS :
                  /\ Contains(text, p)
                  /\ memories[r].type = "product"
                  /\ Like(memories[r].title, p)
            \/ \E c \in AVS_COMPANIES :
                  /\ Contains(text, c)
                  /\ memories[r].type = "company"
                  /\ Like(memories[r].title, c)}

\* the (from, to) pairs cmd_link_all inserts a related_to link for
NewPairs ==
    {p \in Active \X Ids :
        /\ p[2] \in Related(memories[p[1]])
        /\ p[2] # p[1]
        /\ ~\E l \in links : l.from_id = p[1] /\ l.to_id = p[2]}

RECURSIVE AddLinks(_, _)
AddLinks(ls, pairs) ==
    IF pairs = {} THEN ls
    ELSE LET p == CHOOSE q \in pairs : TRUE
         IN  AddLinks(ls \cup {LinkRow(FreshLinkId(ls), p[1], p[2], "related_to")},
                      pairs \ {p})

\* brain_entities.py cmd_link_all
cmd_link_all(dry_run) ==
    /\ IF dry_run
       THEN /\ out' = [cmd |-> "link-all", success |-> TRUE,
                       memories_analyzed |-> Cardinality(Active),
                       links_created |-> 0, dry_run |-> TRUE]
            /\ UNCHANGED links
       ELSE LET ls == AddLinks(links, NewPairs)
            IN  /\ Cardinality(ls) <= MaxLinkRows
                /\ IF UniqueOk(ls)
                   THEN /\ links' = ls
                        /\ out' = [cmd |-> "link-all", success |-> TRUE,
                                   memories_analyzed |-> Cardinality(Active),
                                   links_created |-> Cardinality(NewPairs),
                                   dry_run |-> FALSE]
                   ELSE /\ out' = [cmd |-> "link-all", success |-> FALSE]
                        /\ UNCHANGED links
    /\ UNCHANGED <<memories, embeddings, sync_log, nextId, now>>

\* --------------------------------------------------------------- optimize
\* brain_maintenance.py cmd_optimize: VACUUM, then
\* INSERT INTO memories_fts(memories_fts) VALUES('rebuild').  No statement of
\* the repository creates memories_fts: the INSERT raises
\* sqlite3.OperationalError and the command ends there.
cmd_optimize ==
    /\ out' = [cmd |-> "optimize", success |-> FALSE]
    /\ UNCHANGED <<memories, embeddings, links, sync_log, nextId, now>>

\* ------------------------------------------------------------------- sync
\* the SELECT of cmd_sync
PendingSync(mems) ==
    {i \in DOMAIN mems :
        /\ mems[i].importance >= SyncImportance
        /\ \/ mems[i].avs_node_id = NULL
           \/ TsLess(mems[i].synced_at, mems[i].updated_at)}

RECURSIVE PushAll(_, _, _, _)
PushAll(db, order, okSet, resp) ==
    IF order = <<>> THEN db
    ELSE LET r == sync_to_avs(db.memories, db.sync_log, order[1],
                              order[1] \in okSet, resp)
         IN  PushAll([memories |-> r.memories, sync_log |-> r.sync_log,
                      pushed |-> db.pushed + (IF r.ok THEN 1 ELSE 0),
                      failed |-> db.failed + (IF r.ok THEN 0 ELSE 1)],
                     Tail(order), okSet, resp)

\* brain.py cmd_sync.  key: AVS_API_KEY is set; order: the order of the
\* selected rows; okSet: the memories whose request succeeds
cmd_sync(key, direction, order, okSet, resp) ==
    /\ IF ~key
       THEN /\ out' = [cmd |-> "sync", success |-> FALSE]
            /\ UNCHANGED <<memories, sync_log>>
       ELSE LET db == IF direction \in {"push", "both"}
                      THEN PushAll([memories |-> memories, sync_log |-> sync_log,
                                    pushed |-> 0, failed |-> 0],
                                   order, okSet, resp)
                      ELSE [memories |-> memories, sync_log |-> sync_log,
                            pushed |-> 0, failed |-> 0]
            IN  /\ order \in Perms(PendingSync(memories))
                /\ okSet \subseteq PendingSync(memories)
                /\ Len(db.sync_log) <= MaxLog
                /\ memories' = db.memories
                /\ sync_log' = db.sync_log
                /\ out' = [cmd |-> "sync", success |-> TRUE, direction |-> direction,
                           pushed |-> db.pushed, failed |-> db.failed]
    /\ UNCHANGED <<embeddings, links, nextId, now>>

\* ------------------------------------------------------------ the inputs
MemIds == 1..MaxMem
TagOrders == {<<"net2", "door">>, <<"door", "net2">>}
RemoteIds == {NULL, 901}

\* remember, with the arguments and the embedding drawn from a catalogue
RememberFrom(Catalogue, Keys) ==
    \E c \in Catalogue, key \in Keys, netOk \in BOOLEAN, resp \in RemoteIds :
        cmd_remember(c.args, c.vec, key, netOk, resp) /\ UNCHANGED full

ForgetFrom(ForgetIds) == \E id \in ForgetIds : cmd_forget(id) /\ UNCHANGED full

LinkFrom(Froms, Tos, Relations, Flags) ==
    \E f \in Froms, t \in Tos, rel \in Relations, b \in Flags :
        cmd_link(f, t, rel, b) /\ UNCHANGED full

LinkAllFrom(DryRuns) ==
    \E dry_run \in DryRuns : cmd_link_all(dry_run) /\ UNCHANGED full

ConsolidateFrom(Ths, DryRuns) ==
    \E th \in Ths, dry_run \in DryRuns, order \in ConsolidateOrders,
       tagOrder \in TagOrders :
        cmd_consolidate(th, dry_run, order, tagOrder) /\ UNCHANGED full

DecayFrom(Days, Rates, DryRuns) ==
    \E days \in Days, rate \in Rates, dry_run \in DryRuns :
        cmd_decay(days, rate, dry_run) /\ UNCHANGED full

DuplicatesFrom(Ths, DryRuns) ==
    \E th \in Ths, dry_run \in DryRuns, order \in Perms(Active) :
        cmd_duplicates(th, dry_run, order) /\ UNCHANGED full

Optimize == cmd_optimize /\ UNCHANGED full

SearchFrom(Queries, Types, Limits, QueryVectors) ==
    \E query \in Queries, type \in Types, limit \in Limits, qvec \in QueryVectors :
        cmd_search(query, type, limit, qvec) /\ UNCHANGED full

SearchLocalFrom(Queries, Limits, QueryVectors) ==
    \E query \in Queries, limit \in Limits, qvec \in QueryVectors :
        search_local(query, limit, qvec) /\ UNCHANGED full

SyncFrom(Keys, Directions, Resps, OkSets) ==
    \E key \in Keys, direction \in Directions,
       order \in Perms(PendingSync(memories)),
       okSet \in OkSets, resp \in Resps :
        cmd_sync(key, direction, order, okSet, resp) /\ UNCHANGED full

\* ------------------------------------------------------------------- full
\* brain_maintenance.py cmd_full: consolidate, decay, duplicates and (unless
\* dry_run) optimize, called one after the other with these arguments.  Each
\* command opens its own connection and commits on its own, so each is a
\* step; cmd_full catches no exception, so a command that raises ends the
\* invocation there.
FullConsolidateThreshold == 850
FullDays == 30
FullRate == 5
FullDuplicatesThreshold == 950

Resting == full.pc \in {"idle", "done", "failed"}

\* the position after the command `cmd` has run: `next` when it returned
Called(dry_run, steps, cmd, next) ==
    [pc |-> IF out'.success THEN next ELSE "failed",
     dry_run |-> dry_run,
     steps |-> Append(steps, cmd)]

full_consolidate(dry_run, order, tagOrder) ==
    /\ Resting
    /\ cmd_consolidate(FullConsolidateThreshold, dry_run, order, tagOrder)
    /\ full' = Called(dry_run, <<>>, "consolidate", "decay")

full_decay ==
    /\ full.pc = "decay"
    /\ cmd_decay(FullDays, FullRate, full.dry_run)
    /\ full' = Called(full.dry_run, full.steps, "decay", "duplicates")

full_duplicates(order) ==
    /\ full.pc = "duplicates"
    /\ cmd_duplicates(FullDuplicatesThreshold, full.dry_run, order)
    /\ full' = Called(full.dry_run, full.steps, "duplicates",
                      IF full.dry_run THEN "done" ELSE "optimize")

full_optimize ==
    /\ full.pc = "optimize"
    /\ cmd_optimize
    /\ full' = Called(full.dry_run, full.steps, "optimize", "done")

cmd_full(dry_run) ==
    \/ \E order \in ConsolidateOrders, tagOrder \in TagOrders :
          full_consolidate(dry_run, order, tagOrder)
    \/ full_decay
    \/ \E order \in Perms(Active) : full_duplicates(order)
    \/ full_optimize

\* thirty days pass on the host
Month ==
    /\ now[1] <= MaxDay
    /\ now' = <<now[1] + FullDays, now[2]>>
    /\ UNCHANGED <<memories, embeddings, links, sync_log, nextId, out, full>>

\* ------------------------------------------------ maintenance of the store
Mem(type, title, content, importance, tags, vec) ==
    [args |-> [type |-> type, title |-> title, content |-> content,
               importance |-> importance, tags |-> tags],
     vec |-> vec]

MaintCatalogue ==
    {Mem("product", <<"Paxton">>, <<"alpha">>, 80, <<"net2">>, VecA),
     Mem("product", <<"paxton">>, <<"beta">>, 50, <<>>, VecB),
     Mem("product", <<"Note">>, <<"alpha">>, 50, <<"door">>, VecC),
     Mem("memory", <<"Note">>, <<"paxton">>, 80, <<>>, VecB),
     Mem("memory", <<"Paxton">>, <<"beta">>, 50, <<>>, None)}

NextMaint ==
    \/ RememberFrom(MaintCatalogue, {FALSE})
    \/ ForgetFrom(MemIds)
    \/ ConsolidateFrom(Thresholds, {FALSE})
    \/ DecayFrom({0}, {40}, {FALSE})
    \/ DuplicatesFrom(Thresholds, {FALSE})
    \/ Optimize

SpecMaint == Init /\ [][NextMaint]_vars

\* ------------------------------------- every command that writes the store
StoreCatalogue ==
    {Mem("product", <<"Paxton">>, <<"alpha">>, 80, <<>>, VecA),
     Mem("product", <<"paxton">>, <<"beta">>, 50, <<>>, VecB)}

NextStore ==
    \/ RememberFrom(StoreCatalogue, {FALSE})
    \/ ConsolidateFrom({950}, {FALSE})
    \/ DecayFrom({0}, {40}, {FALSE})
    \/ DuplicatesFrom({950}, {FALSE})
    \/ Optimize
    \/ LinkFrom({1}, {2}, {"related_to"}, {FALSE})
    \/ SyncFrom({TRUE}, {"push"}, {901}, {PendingSync(memories)})

SpecStore == Init /\ [][NextStore]_vars

\* ------------------------------------------- the arguments of remember
\* a title or a content of "" passes argparse (required=True asks only that
\* the option be given) and is what mcp-server.py passes for a missing field
RememberCatalogue ==
    {Mem("memory", <<"Paxton">>, <<"alpha">>, 80, <<>>, VecA),
     Mem("memory", <<>>, <<"alpha">>, 50, <<>>, VecA),
     Mem("memory", <<"Note">>, <<>>, 70, <<>>, None),
     Mem("bogus", <<"Note">>, <<"alpha">>, 50, <<>>, VecB)}

NextRemember ==
    \/ RememberFrom(RememberCatalogue, BOOLEAN)
    \/ ForgetFrom(MemIds)
    \/ Tick

SpecRemember == Init /\ [][NextRemember]_vars

\* ------------------------------------------------ the push to the remote
SyncCatalogue ==
    {Mem("memory", <<"Paxton">>, <<"alpha">>, 130, <<>>, None)}

NextSync ==
    \/ nextId <= MaxSyncMem /\ RememberFrom(SyncCatalogue, BOOLEAN)
    \/ DecayFrom({0}, {60}, {FALSE})
    \/ Tick
    \/ SyncFrom(BOOLEAN, {"push", "pull"}, RemoteIds,
                SUBSET PendingSync(memories))

SpecSync == Init /\ [][NextSync]_vars

\* ------------------------------------------------------- the link graph
LinksCatalogue ==
    {Mem("product", <<"Paxton">>, <<"alpha">>, 80, <<>>, VecA),
     Mem("product", <<"paxton">>, <<"beta">>, 50, <<>>, None)}

NextLinks ==
    \/ RememberFrom(LinksCatalogue, {FALSE})
    \/ LinkFrom(MemIds, MemIds, {"related_to", "bogus"}, BOOLEAN)
    \/ LinkAllFrom({FALSE})
    \/ DuplicatesFrom({950}, BOOLEAN)

SpecLinks == Init /\ [][NextLinks]_vars

\* ------------------------------ the link graph under every store command
NextGraph ==
    \/ RememberFrom(LinksCatalogue, {FALSE})
    \/ ForgetFrom({1})
    \/ LinkFrom({1, 2}, {1, 2}, {"related_to"}, BOOLEAN)
    \/ LinkAllFrom({FALSE})
    \/ ConsolidateFrom({950}, {FALSE})
    \/ DecayFrom({0}, {70}, {FALSE})
    \/ DuplicatesFrom({950}, {FALSE})

SpecGraph == Init /\ [][NextGraph]_vars

\* ------------------------------------------------------------- the search
SearchCatalogue ==
    {Mem("product", <<"Paxton">>, <<"alpha">>, 80, <<>>, VecA),
     Mem("product", <<"paxton">>, <<"beta">>, 50, <<"door">>, VecB),
     Mem("memory", <<"E'lan">>, <<"door">>, 50, <<>>, None)}

SearchQueries == {<<"paxton">>, <<"door">>, <<"e'lan">>}
SearchTypes == {"", "memory"}
SearchLimits == {1, 10, -1}
SearchVectors == {None, VecA}

NextSearch ==
    \/ RememberFrom(SearchCatalogue, {FALSE})
    \/ ConsolidateFrom({950}, {FALSE})
    \/ DuplicatesFrom({950}, {FALSE})
    \/ SearchFrom(SearchQueries, SearchTypes, SearchLimits, SearchVectors)
    \/ SearchLocalFrom({<<"paxton">>, <<"door">>}, {1, 10}, SearchVectors)

SpecSearch == Init /\ [][NextSearch]_vars

\* ------------------------------------------- a search over stored blobs
\* the store a search reads is an input of cmd_search: two memories, each
\* with a vector column of 8 bytes (two floats) or cut to 7 bytes
StoredBlobs == {[floats |-> v, len |-> n] : v \in {VecA, VecB}, n \in {7, 8}}

InitStored ==
    /\ now = <<0, 0>>
    /\ \E c1, c2 \in SearchCatalogue :
          memories = <<NewMemory(c1.args), NewMemory(c2.args)>>
    /\ \E b1, b2 \in StoredBlobs : embeddings = <<b1, b2>>
    /\ links = {}
    /\ sync_log = <<>>
    /\ nextId = 3
    /\ out = [cmd |-> "init"]
    /\ full = Idle

NextStored == SearchFrom(SearchQueries, {""}, {10}, SearchVectors)

SpecStored == InitStored /\ [][NextStored]_vars

\* ------------------------------------------------------ the deduplication
\* similar in a chain: VecA ~ VecB and VecB ~ VecC at 0.95, VecA and VecC not
DedupCatalogue ==
    {Mem("memory", <<"Paxton">>, <<"alpha">>, 50, <<>>, VecA),
     Mem("memory", <<"Net2">>, <<"beta">>, 80, <<>>, VecB),
     Mem("memory", <<"Note">>, <<"door">>, 50, <<>>, VecC),
     Mem("memory", <<"paxton">>, <<"beta">>, 60, <<>>, None)}

NextDedup ==
    \/ RememberFrom(DedupCatalogue, {FALSE})
    \/ DuplicatesFrom({FullDuplicatesThreshold}, BOOLEAN)

SpecDedup == Init /\ [][NextDedup]_vars

\* -------------------------------------------------------------- the decay
DecayCatalogue ==
    {Mem("product", <<"Paxton">>, <<"alpha">>, 50, <<>>, VecA)}

DecayDays == {0, 1}
DecayRates == {80, -40}

NextDecay ==
    \/ RememberFrom(DecayCatalogue, {FALSE})
    \/ Tick
    \/ DecayFrom(DecayDays, DecayRates, BOOLEAN)

SpecDecay == Init /\ [][NextDecay]_vars

\* -------------------------------------------------------- full maintenance
FullCatalogue ==
    {Mem("product", <<"Paxton">>, <<"alpha">>, 20, <<>>, VecA),
     Mem("product", <<"paxton">>, <<"beta">>, 12, <<>>, VecB),
     Mem("memory", <<"Note">>, <<"alpha">>, 20, <<>>, VecA)}

FullFrom(DryRuns) == \E dry_run \in DryRuns : cmd_full(dry_run)

\* a running invocation is not interleaved with the commands of other
\* processes
NextFull ==
    \/ Resting /\ RememberFrom(FullCatalogue, {FALSE})
    \/ Resting /\ LinkFrom({1}, {2}, {"related_to"}, {TRUE})
    \/ Resting /\ Month
    \/ Resting /\ ConsolidateFrom({FullDuplicatesThreshold}, {TRUE})
    \/ Resting /\ DecayFrom({0}, {FullRate}, {TRUE})
    \/ Resting /\ DuplicatesFrom({FullConsolidateThreshold}, {TRUE})
    \/ FullFrom(BOOLEAN)

SpecFull == Init /\ [][NextFull]_vars

\* ------------------------------------------- maintenance runs cut short
NextAbort ==
    \/ RememberFrom(FullCatalogue, {FALSE})
    \/ ConsolidateFrom({FullConsolidateThreshold}, {FALSE})
    \/ DecayFrom({0}, {FullRate}, {FALSE})
    \/ DuplicatesFrom({FullDuplicatesThreshold}, {FALSE})
    \/ \E order \in ConsolidateOrders, tagOrder \in TagOrders, k \in 0..MaxMem :
          /\ consolidate_aborted(FullConsolidateThreshold, order, tagOrder, k)
          /\ UNCHANGED full
    \/ \E k \in 0..MaxMem : decay_aborted(0, FullRate, k) /\ UNCHANGED full
    \/ \E order \in Perms(Active), k \in 0..MaxMem :
          /\ duplicates_aborted(FullDuplicatesThreshold, order, k)
          /\ UNCHANGED full

SpecAbort == Init /\ [][NextAbort]_vars

\* ================================================================ claims

ConsolidatedInto(i) == memories[i].consolidated_into

\* the memory reached from i after n consolidated_into hops (NULL when the
\* chain has ended or left the table)
RECURSIVE Hop(_, _)
Hop(i, n) ==
    IF n = 0 THEN i
    ELSE LET j == Hop(i, n - 1)
         IN  IF j \in Ids THEN ConsolidatedInto(j) ELSE NULL

\* the memories a step retires (consolidated_into goes from NULL to an id)
Retired == {i \in Ids : /\ ConsolidatedInto(i) = NULL
                        /\ i \in Ids'
                        /\ memories'[i].consolidated_into # NULL}

\* the rows of ls on one (from_id, to_id, relation_type) triple
RowsOn(ls, f, t, rel) ==
    {l \in ls : l.from_id = f /\ l.to_id = t /\ l.relation_type = rel}

\* C1: no memory whose consolidated_into is set appears in the result list
\* of a search (brain.py search, brain_context.py search_local), whatever
\* the query, the kind filter and the limit.
C1_SearchExcludesConsolidated ==
    (out.cmd \in {"search", "search_local"} /\ out.success)
        => \A k \in 1..Len(out.results) :
              ConsolidatedInto(out.results[k].id) = NULL

\* C2: a decay run raises no memory's importance, and a memory whose
\* importance the run changed has importance >= 10 afterwards, for every
\* days and rate the command line accepts.
C2_DecayNeverRaises ==
    [][out'.cmd = "decay"
          => \A i \in Ids :
                /\ memories'[i].importance <= memories[i].importance
                /\ memories'[i].importance # memories[i].importance
                      => memories'[i].importance >= DecayFloor]_vars

\* C3: a Consolidate run that directly follows a committed Consolidate run
\* with the same threshold finds no cluster, consolidates no memory and
\* leaves every table as it was.
C3_ConsolidateIdempotent ==
    [][\A th \in Thresholds, order \in Perms(Active), tagOrder \in TagOrders :
          (JustConsolidated(th) /\ cmd_consolidate(th, FALSE, order, tagOrder))
             => /\ out'.clusters_found = 0
                /\ out'.memories_consolidated = 0
                /\ memories' = memories
                /\ embeddings' = embeddings
                /\ links' = links
                /\ sync_log' = sync_log]_vars

\* a second run in a row has been made after a run that retired a memory
C3_Witness ==
    /\ out.cmd = "consolidate"
    /\ out.rerun
    /\ ~out.dry_run
    /\ \E i \in Ids : ConsolidatedInto(i) # NULL

\* C4: in every reachable state every embedding row and every link endpoint
\* refers to an existing memory (a successful forget leaves no embedding and
\* no link of the forgotten id behind).
C4_ReferentialIntegrity ==
    /\ \A i \in DOMAIN embeddings : i \in Ids
    /\ \A l \in links : l.from_id \in Ids /\ l.to_id \in Ids

\* C5: in every reachable state at most one link row carries a given
\* (from_id, to_id, relation_type) triple.
C5_LinkUnique ==
    \A l1, l2 \in links :
        (/\ l1.from_id = l2.from_id
         /\ l1.to_id = l2.to_id
         /\ l1.relation_type = l2.relation_type) => l1 = l2

\* a link command has re-created a triple: its row is the only row, and it
\* is not the first row ever inserted
C5_Witness ==
    /\ out.cmd = "link"
    /\ out.success
    /\ Cardinality(links) = 1
    /\ \E l \in links : l.id > 1

\* C6: a successful link(A, B, t) leaves exactly one row on (A, B, t),
\* whether or not the triple existed; with bidirectional it also leaves
\* exactly one row on (B, A, t), a row of its own when A # B; and the rows
\* on every other triple are the rows that were there before.
C6_LinkUpsert ==
    [][(out'.cmd = "link" /\ out'.success)
          => LET f == out'.from_id
                 t == out'.to_id
                 rel == out'.relation_type
                 both == out'.bidirectional
                 Touched(l) ==
                     \/ l \in RowsOn({l}, f, t, rel)
                     \/ both /\ l \in RowsOn({l}, t, f, rel)
             IN  /\ Cardinality(RowsOn(links', f, t, rel)) = 1
                 /\ both => Cardinality(RowsOn(links', t, f, rel)) = 1
                 /\ (both /\ f # t)
                       => Cardinality(RowsOn(links', f, t, rel)
                                        \cup RowsOn(links', t, f, rel)) = 2
                 /\ {l \in links' : ~Touched(l)} = {l \in links : ~Touched(l)}]_vars

\* a bidirectional link between two memories has left two rows, and the
\* forward triple existed before (its row did not get the first id)
C6_Witness ==
    /\ out.cmd = "link"
    /\ out.success
    /\ out.bidirectional
    /\ out.from_id # out.to_id
    /\ Cardinality(links) = 2
    /\ \E l \in RowsOn(links, out.from_id, out.to_id, out.relation_type) : l.id # 1

\* C7: after a committed Deduplicate run, every link row is the row it was
\* with each endpoint that the run retired replaced by that memory's
\* survivor: no row has an endpoint the run retired, and there are no more
\* rows than before.
C7_LinksRepointed ==
    [][(out'.cmd = "duplicates" /\ out'.success /\ ~out'.dry_run)
          => LET Survivor(x) ==
                     IF x \in Retired THEN memories'[x].consolidated_into ELSE x
             IN  /\ \A l \in links' : l.from_id \notin Retired /\ l.to_id \notin Retired
                 /\ \A l \in links : \E r \in links' :
                       /\ r.id = l.id
                       /\ r.relation_type = l.relation_type
                       /\ r.from_id = Survivor(l.from_id)
                       /\ r.to_id = Survivor(l.to_id)
                 /\ Cardinality(links') <= Cardinality(links)]_vars

\* a committed run has retired a memory and moved a link of it
C7_Witness ==
    /\ out.cmd = "duplicates"
    /\ out.success
    /\ ~out.dry_run
    /\ out.memories_merged > 0
    /\ out.repointed > 0

\* a Deduplicate run with this threshold over rows in this order re-points
\* a link onto a triple that a row of the survivor already carries
Collides(threshold, order) ==
    /\ order \in Perms(Active)
    /\ ScanOk
    /\ ~ApplyDuplicates(memories,
                        [memories |-> memories, links |-> links, ok |-> TRUE],
                        FindDuplicates(order, 1, {}, <<>>, threshold)).ok

\* C8: a Deduplicate run that re-points a link onto a triple the survivor
\* already has completes successfully, leaves exactly one row on that triple
\* and marks every non-survivor as consolidated.
C8_CollisionUpserts ==
    [][\A th \in Thresholds, order \in Perms(Active) :
          (Collides(th, order) /\ cmd_duplicates(th, FALSE, order))
             => /\ out'.success
                /\ \A l1, l2 \in links' :
                      (/\ l1.from_id = l2.from_id
                       /\ l1.to_id = l2.to_id
                       /\ l1.relation_type = l2.relation_type) => l1 = l2
                /\ \A g \in Range(FindDuplicates(order, 1, {}, <<>>, th)) :
                      Cardinality({i \in Range(g) :
                                      memories'[i].consolidated_into = NULL}) = 1]_vars

\* C9: following consolidated_into pointers from a memory never returns to
\* that memory.
C9_Acyclic ==
    \A i \in Ids : \A n \in 1..Cardinality(Ids) : Hop(i, n) # i

\* a memory consolidated into a memory that was itself consolidated later
C9_Witness ==
    \E i \in Ids :
        /\ ConsolidatedInto(i) \in Ids
        /\ ConsolidatedInto(ConsolidatedInto(i)) \in Ids

\* C10: once a memory's consolidated_into is set, no step of Consolidate,
\* Decay, Deduplicate, optimize, sync, link or remember clears it or changes
\* it to another id.
C10_WriteOnce ==
    [][\A i \in Ids :
          ConsolidatedInto(i) # NULL
             => /\ i \in Ids'
                /\ memories'[i].consolidated_into = ConsolidatedInto(i)]_vars

\* a Deduplicate run has retired one memory while another memory was
\* already retired
C10_Witness ==
    /\ out.cmd = "duplicates"
    /\ out.success
    /\ out.memories_merged = 1
    /\ Cardinality({i \in Ids : ConsolidatedInto(i) # NULL}) = 2

\* C11: in every reachable state the memory a consolidated_into pointer
\* names is itself not consolidated (no chain of two pointers).
C11_NoChains ==
    \A i \in Ids :
        ConsolidatedInto(i) \in Ids
            => ConsolidatedInto(ConsolidatedInto(i)) = NULL

\* a step of Consolidate, Decay or Deduplicate invoked with dry_run = true
DryRunStep ==
    \/ /\ out'.cmd = "consolidate"
       /\ \E th \in Thresholds, order \in ConsolidateOrders, tagOrder \in TagOrders :
             cmd_consolidate(th, TRUE, order, tagOrder)
    \/ /\ out'.cmd = "decay"
       /\ \E days \in {0, FullDays} : cmd_decay(days, FullRate, TRUE)
    \/ /\ out'.cmd = "duplicates"
       /\ \E th \in Thresholds, order \in Perms(Active) :
             cmd_duplicates(th, TRUE, order)

\* C12: a dry run of Consolidate, Decay or Deduplicate, alone or as a step
\* of a dry-run Full, leaves the memories, embeddings, links and sync_log
\* tables as they were.
C12_DryRunMutatesNothing ==
    [][(DryRunStep \/ (full' # full /\ full'.dry_run))
          => UNCHANGED <<memories, embeddings, links, sync_log>>]_vars

\* a dry-run Full has run its last command, which reported a group to merge,
\* on a store with a memory that its Decay step reported
C12_Witness ==
    /\ full.pc = "done"
    /\ full.dry_run
    /\ out.cmd = "duplicates"
    /\ out.duplicate_groups > 0
    /\ Decayed(FullDays, FullRate) # {}

\* C13: remember fails, creating no memory, embedding or sync-log row, when
\* the kind is outside the enumeration or the title or the content is empty;
\* otherwise it succeeds and returns an id no memory had.
C13_RememberValidates ==
    [][\A c \in RememberCatalogue, key \in BOOLEAN, netOk \in BOOLEAN,
          resp \in RemoteIds :
          cmd_remember(c.args, c.vec, key, netOk, resp)
              => IF \/ c.args.type \notin VALID_TYPES
                    \/ c.args.title = <<>>
                    \/ c.args.content = <<>>
                 THEN /\ ~out'.success
                      /\ UNCHANGED <<memories, embeddings, sync_log>>
                 ELSE /\ out'.success
                      /\ out'.id \notin Ids
                      /\ out'.id \in DOMAIN memories']_vars

\* the rows a step appended to sync_log
Appended == {sync_log'[k] : k \in (Len(sync_log) + 1)..Len(sync_log')}

AppendedFor(i, status) ==
    {k \in (Len(sync_log) + 1)..Len(sync_log') :
        sync_log'[k].memory_id = i /\ sync_log'[k].status = status}

\* C14: a sync pass selects exactly the memories with importance >= 70 and
\* (remote_ref null or updated_at > synced_at); a new memory of importance
\* >= 70 with no successful sync is pending; a successful sync of a memory
\* sets its remote_ref, sets synced_at to now, appends one success row and
\* leaves it not pending; a synced memory that is not pending becomes
\* pending only by a step that advances its updated_at.
C14_PendingSync ==
    [][/\ \A direction \in {"push", "both"}, resp \in RemoteIds,
             order \in Perms(PendingSync(memories)),
             okSet \in SUBSET PendingSync(memories) :
             cmd_sync(TRUE, direction, order, okSet, resp)
                 => {r.memory_id : r \in Appended}
                      = {i \in Ids :
                            /\ memories[i].importance >= 70
                            /\ \/ memories[i].avs_node_id = NULL
                               \/ TsLess(memories[i].synced_at,
                                         memories[i].updated_at)}
       /\ \A i \in DOMAIN memories' \ Ids :
             (memories'[i].importance >= 70 /\ AppendedFor(i, "success") = {})
                 => i \in PendingSync(memories')
       /\ \A i \in DOMAIN memories' :
             AppendedFor(i, "success") # {}
                 => /\ Cardinality(AppendedFor(i, "success")) = 1
                    /\ memories'[i].avs_node_id # NULL
                    /\ memories'[i].synced_at = <<now[1], SqliteSep, now[2]>>
                    /\ i \notin PendingSync(memories')
       /\ \A i \in Ids \cap DOMAIN memories' :
             (/\ memories[i].avs_node_id # NULL
              /\ memories[i].importance >= 70
              /\ i \notin PendingSync(memories)
              /\ i \in PendingSync(memories'))
                 => TsLess(memories[i].updated_at, memories'[i].updated_at)]_vars

\* C15: a failed sync attempt of a memory appends exactly one failure row
\* to sync_log and changes nothing else: the memory keeps every field (a new
\* memory stays without remote_ref and synced_at), the links and, in a sync
\* pass, the embeddings stay, and the memory is still in the set the next
\* pass selects.
C15_FailedSyncKeepsPending ==
    [][\A i \in DOMAIN memories' :
          AppendedFor(i, "failed") # {}
              => /\ Cardinality(AppendedFor(i, "failed")) = 1
                 /\ AppendedFor(i, "success") = {}
                 /\ IF i \in Ids
                    THEN /\ memories'[i] = memories[i]
                         /\ i \in PendingSync(memories)
                         /\ embeddings' = embeddings
                    ELSE /\ memories'[i].avs_node_id = NULL
                         /\ memories'[i].synced_at = None
                 /\ links' = links
                 /\ i \in PendingSync(memories')]_vars

\* a sync pass has failed for a memory that an earlier successful sync had
\* given a remote_ref, and the memory is still pending
C15_Witness ==
    /\ out.cmd = "sync"
    /\ out.success
    /\ out.failed > 0
    /\ \E k \in 1..Len(sync_log) :
          /\ sync_log[k].status = "failed"
          /\ sync_log[k].memory_id \in PendingSync(memories)
          /\ memories[sync_log[k].memory_id].avs_node_id # NULL

\* C16: a search given a kind filter returns only memories of that kind.
C16_KindFilter ==
    (out.cmd = "search" /\ out.success /\ out.type # "")
        => \A k \in 1..Len(out.results) : out.results[k].type = out.type

\* C17: for a search without kind filter whose limit cuts nothing, with
\* text_match = 1.0 iff the lower-cased query occurs in the lower-cased title
\* or content, semantic_score = the cosine of the query and memory embeddings
\* (0.0 without provider or embedding) and combined_score = 0.4 * text_match
\* + 0.6 * semantic_score: the search succeeds, a memory is in the result iff
\* combined_score > 0.1 or text_match > 0, and its row carries these scores.
C17_ScoringRule ==
    [][\A query \in SearchQueries, limit \in SearchLimits, qvec \in SearchVectors :
          (cmd_search(query, "", limit, qvec) /\ limit >= Cardinality(Ids))
              => /\ out'.success
                 /\ \A i \in Ids :
                       LET m == memories[i]
                           tm == IF \/ Contains(LowerText(m.title), LowerText(query))
                                    \/ Contains(LowerText(m.content), LowerText(query))
                                 THEN Scale ELSE 0
                           sem == IF qvec # None /\ i \in DOMAIN embeddings
                                  THEN cosine_similarity(
                                           qvec, blob_to_embedding(embeddings[i]))
                                  ELSE 0
                           comb == 4 * tm + 6 * sem
                           rows == {k \in 1..Len(out'.results) :
                                       out'.results[k].id = i}
                       IN  /\ rows # {} <=> (comb > Scale \/ tm > 0)
                           /\ \A k \in rows :
                                 /\ out'.results[k].text_match = tm
                                 /\ out'.results[k].semantic_score = sem
                                 /\ out'.results[k].score = Round3(comb)]_vars

\* C18: the rows a search returns are in descending order of (score,
\* importance), there are at most `limit` of them (none for a limit below
\* 1), and they are the first `limit` rows of the included memories in that
\* order.
C18_OrderedAndLimited ==
    [][\A query \in SearchQueries, type \in SearchTypes, limit \in SearchLimits,
          qvec \in SearchVectors :
          (cmd_search(query, type, limit, qvec) /\ out'.success)
              => /\ Len(out'.results) <= Max(limit, 0)
                 /\ \A j, k \in 1..Len(out'.results) :
                       j < k => KeyGE(out'.results[j], out'.results[k])
                 /\ \E s \in SortedResults(SearchHits(query, type, qvec)) :
                       out'.results
                         = SubSeq(s, 1, IF limit < Len(s) THEN Max(limit, 0)
                                        ELSE Len(s))]_vars

\* the commands Full is to run, in order
FullSteps(dry_run) ==
    <<"consolidate", "decay", "duplicates">>
        \o (IF dry_run THEN <<>> ELSE <<"optimize">>)

\* C19: an invocation of Full calls Consolidate(0.85), Decay(30, 5),
\* Deduplicate(0.95) and then Compact, one after the other in that order;
\* when the invocation is over it has called all of them, Compact exactly
\* when dry_run is false.
C19_FullRunsEveryStep ==
    /\ Len(full.steps) <= Len(FullSteps(full.dry_run))
    /\ full.steps = SubSeq(FullSteps(full.dry_run), 1, Len(full.steps))
    /\ full.pc = "decay"
          => /\ out.cmd = "consolidate"
             /\ out.threshold = 850
             /\ out.dry_run = full.dry_run
    /\ full.pc = "duplicates"
          => /\ out.cmd = "decay"
             /\ out.days_threshold = 30
             /\ out.decay_rate = 5
             /\ out.dry_run = full.dry_run
    /\ full.pc \in {"done", "failed"} => full.steps = FullSteps(full.dry_run)

\* C20: Compact, run on any store the other commands have produced,
\* completes successfully and leaves the memories, embeddings, links and
\* sync_log tables as they were.
C20_CompactSafe ==
    [][cmd_optimize
          => /\ out'.success
             /\ UNCHANGED <<memories, embeddings, links, sync_log>>]_vars

\* C21: every memory a Consolidate run marks consolidated_into = s was not
\* consolidated, has an embedding, has the kind of s, has cosine similarity
\* >= threshold to the embedding of s and importance <= that of s; s is a
\* memory that was not consolidated and that the run does not mark.
C21_ClustersCorrect ==
    [][\A th \in Thresholds, tagOrder \in TagOrders :
          (/\ out'.cmd = "consolidate"
           /\ \E order \in ConsolidateOrders :
                 cmd_consolidate(th, FALSE, order, tagOrder))
              => \A i \in Ids :
                    memories'[i].consolidated_into # memories[i].consolidated_into
                        => LET s == memories'[i].consolidated_into
                           IN  /\ memories[i].consolidated_into = NULL
                               /\ s \in Ids \ {i}
                               /\ memories[s].consolidated_into = NULL
                               /\ memories'[s].consolidated_into = NULL
                               /\ i \in DOMAIN embeddings
                               /\ s \in DOMAIN embeddings
                               /\ memories[i].type = memories[s].type
                               /\ cosine_similarity(
                                      blob_to_embedding(embeddings[s]),
                                      blob_to_embedding(embeddings[i])) >= th
                               /\ memories[i].importance <= memories[s].importance]_vars

\* a Consolidate run has just retired a memory while another active memory,
\* of another kind, is as similar to the survivor
C21_Witness ==
    /\ out.cmd = "consolidate"
    /\ out.success
    /\ out.memories_consolidated > 0
    /\ \E i, j \in Ids :
          /\ ConsolidatedInto(i) \in Ids
          /\ ConsolidatedInto(j) = NULL
          /\ j \in DOMAIN embeddings
          /\ ConsolidatedInto(i) \in DOMAIN embeddings
          /\ memories[j].type # memories[ConsolidatedInto(i)].type
          /\ cosine_similarity(blob_to_embedding(embeddings[ConsolidatedInto(i)]),
                               blob_to_embedding(embeddings[j])) >= out.threshold

\* C22: the counts a dry run of Consolidate, Decay or Deduplicate reports
\* (clusters_found and memories_consolidated, memories_decayed,
\* duplicate_groups and memories_merged) are the counts a real run from the
\* same store reports.
C22_DryRunReports ==
    [][/\ \A th \in Thresholds, order \in ConsolidateOrders, tagOrder \in TagOrders :
             (out'.cmd = "consolidate" /\ cmd_consolidate(th, TRUE, order, tagOrder))
                 => LET clusters == FindClusters(order, 1, {}, <<>>, th)
                    IN  /\ out'.clusters_found = Len(clusters)
                        /\ out'.memories_consolidated = SumLen(clusters)
       /\ \A days \in {0, FullDays} :
             (out'.cmd = "decay" /\ cmd_decay(days, FullRate, TRUE))
                 => out'.memories_decayed = Cardinality(Decayed(days, FullRate))
       /\ \A th \in Thresholds, order \in Perms(Active) :
             (out'.cmd = "duplicates" /\ cmd_duplicates(th, TRUE, order))
                 => LET duplicates == FindDuplicates(order, 1, {}, <<>>, th)
                    IN  /\ out'.duplicate_groups = Len(duplicates)
                        /\ out'.memories_merged = SumLen(duplicates)]_vars

\* C23: after a Consolidate, Decay or Deduplicate run that is cut short
\* when k groups or records have been processed, the persisted store holds
\* exactly the writes of these k groups or records.
C23_AtomicPerGroup ==
    [][/\ \A order \in ConsolidateOrders, tagOrder \in TagOrders, k \in 0..MaxMem :
             consolidate_aborted(FullConsolidateThreshold, order, tagOrder, k)
                 => memories'
                      = ApplyClusters(memories, memories,
                            SubSeq(FindClusters(order, 1, {}, <<>>,
                                                FullConsolidateThreshold), 1, k),
                            tagOrder)
       /\ \A k \in 0..MaxMem :
             decay_aborted(0, FullRate, k)
                 => LET written == {i \in Ids : memories'[i] # memories[i]}
                    IN  /\ Cardinality(written) = k
                        /\ \A i \in written :
                              /\ i \in Decayed(0, FullRate)
                              /\ memories'[i].importance
                                   = new_importance(memories[i].importance, FullRate)
       /\ \A order \in Perms(Active), k \in 0..MaxMem :
             duplicates_aborted(FullDuplicatesThreshold, order, k)
                 => LET db == ApplyDuplicates(memories,
                                  [memories |-> memories, links |-> links,
                                   ok |-> TRUE],
                                  SubSeq(FindDuplicates(order, 1, {}, <<>>,
                                             FullDuplicatesThreshold), 1, k))
                    IN  /\ memories' = db.memories
                        /\ links' = db.links]_vars

\* C24: a Decay run with rate > 0 strictly lowers, and never below 10, the
\* importance of every non-consolidated, old, unaccessed memory above 10
\* (to exactly 10 when it is within the rate of it), so that finitely many
\* runs bring it to 10; a memory at 10 is left unchanged by the run and is
\* not counted.
C24_DecayConverges ==
    [][(out'.cmd = "decay" /\ cmd_decay(FullDays, FullRate, FALSE))
          => /\ \A i \in Ids :
                   IF /\ memories[i].importance > 10
                      /\ memories[i].consolidated_into = NULL
                      /\ TsLess(memories[i].created_at, CutoffDate(FullDays))
                      /\ \/ memories[i].accessed_at = None
                         \/ TsLess(memories[i].accessed_at, CutoffDate(FullDays))
                   THEN /\ memories'[i].importance < memories[i].importance
                        /\ memories'[i].importance >= 10
                        /\ memories[i].importance <= 10 + FullRate
                              => memories'[i].importance = 10
                   ELSE memories'[i] = memories[i]
             /\ out'.memories_decayed
                  = Cardinality({i \in Ids : memories'[i] # memories[i]})]_vars

\* a Decay run has just counted nothing although an old active memory,
\* brought down to 10 by earlier runs, is in the store
C24_Witness ==
    /\ out.cmd = "decay"
    /\ ~out.dry_run
    /\ out.memories_decayed = 0
    /\ \E i \in Ids :
          /\ memories[i].importance = 10
          /\ memories[i].consolidated_into = NULL
          /\ TsLess(memories[i].created_at, CutoffDate(FullDays))

\* C25: a Decay run modifies a memory only if its importance is above 10,
\* it is not consolidated, it was created before now - days and it was never
\* accessed or last accessed before now - days (the instants compared as
\* instants); a modified memory keeps every field but importance, and the
\* embeddings, links and sync_log tables are unchanged.
C25_DecayFrame ==
    [][\A days \in DecayDays, rate \in DecayRates :
          (out'.cmd = "decay" /\ cmd_decay(days, rate, FALSE))
              => /\ \A i \in Ids :
                       memories'[i] # memories[i]
                           => LET m == memories[i]
                                  cutoff == CutoffDate(days)
                                  Before(t) ==
                                      \/ t[1] < cutoff[1]
                                      \/ t[1] = cutoff[1] /\ t[3] < cutoff[3]
                              IN  /\ m.importance > 10
                                  /\ m.consolidated_into = NULL
                                  /\ Before(m.created_at)
                                  /\ m.accessed_at = None \/ Before(m.accessed_at)
                                  /\ memories'[i]
                                       = [m EXCEPT !.importance =
                                                      memories'[i].importance]
                 /\ UNCHANGED <<embeddings, links, sync_log>>]_vars

\* C26: a search over a store in which a memory's embedding blob has a
\* length that is not a multiple of 4 completes, gives that memory the
\* semantic_score 0.0 and scores the other memories as usual.
C26_MalformedBlobTolerated ==
    [][\A query \in SearchQueries, qvec \in SearchVectors :
          cmd_search(query, "", 10, qvec)
              => /\ out'.success
                 /\ \A k \in 1..Len(out'.results) :
                       LET id == out'.results[k].id
                       IN  out'.results[k].semantic_score
                             = IF BlobOk(embeddings[id])
                               THEN semantic_score(qvec, embeddings[id])
                               ELSE 0]_vars

\* C27: in every reachable state the importance of every memory is an
\* integer from 0 to 100.
C27_ImportanceRange ==
    \A i \in Ids : memories[i].importance \in 0..100

\* C28: a Deduplicate run that directly follows a committed Deduplicate
\* run with the same threshold finds no group, merges nothing and leaves
\* the memories and the links as they were.
C28_DedupIdempotent ==
    [][\A order \in Perms(Active) :
          (/\ out.cmd = "duplicates"
           /\ out.success
           /\ ~out.dry_run
           /\ cmd_duplicates(FullDuplicatesThreshold, FALSE, order))
              => /\ out'.success
                 /\ out'.duplicate_groups = 0
                 /\ out'.memories_merged = 0
                 /\ UNCHANGED <<memories, links>>]_vars

\* C29: the memory each merged memory is consolidated into by a Deduplicate
\* run is the same for every order in which the active rows are scanned.
C29_DedupOrderFree ==
    [][\A order \in Perms(Active) :
          (out'.cmd = "duplicates"
             /\ cmd_duplicates(FullDuplicatesThreshold, FALSE, order))
              => \A other \in Perms(Active) :
                    LET db == ApplyDuplicates(memories,
                                  [memories |-> memories, links |-> links,
                                   ok |-> TRUE],
                                  FindDuplicates(other, 1, {}, <<>>,
                                                 FullDuplicatesThreshold))
                    IN  \A i \in Ids :
                           db.memories[i].consolidated_into
                             = memories'[i].consolidated_into]_vars

\* C30: a memory whose consolidated_into is set is not selected by the
\* sync pass, and no step pushes it (no push row of sync_log is appended
\* for it).
C30_RetiredNotMirrored ==
    [][\A i \in Ids :
          memories[i].consolidated_into # NULL
              => /\ i \notin PendingSync(memories)
                 /\ \A r \in Appended :
                       r.action = "push" => r.memory_id # i]_vars

====
